---- MODULE Spec2Model ----
(***************************************************************************)
(* Model of the scoring pipeline of src/scoring.py (Nirmaan spoken         *)
(* introduction tool): preprocess_text, compute_keyword_score,             *)
(* compute_length_penalty, _get_criterion_name, _get_first_existing and    *)
(* score_transcript.                                                       *)
(*                                                                         *)
(* Representation.                                                         *)
(*  - A Python str is a sequence of one-character strings.                 *)
(*  - A Python float is an exact rational <<n, d>> in lowest terms with    *)
(*    d > 0; non-finite floats are the cell kinds "nan" and "inf".  The    *)
(*    binary rounding of float arithmetic is not modelled.                 *)
(*  - A rubric cell is NaN (missing), Inf, Num(q) or Str(s).               *)
(*  - A rubric (DataFrame) is [cols, rows]: the ordered column names and   *)
(*    one sequence of cells per row, aligned with cols.                    *)
(***************************************************************************)
EXTENDS Integers, Sequences, FiniteSets, TLC

VARIABLES pc, transcript, rubric, model_loaded, similarity, word_count, row_idx,
          weighted_sum, total_weight, per_criterion, final_scores,
          overall_score, call_args, call_ret

vars == <<pc, transcript, rubric, model_loaded, similarity, word_count, row_idx,
          weighted_sum, total_weight, per_criterion, final_scores,
          overall_score, call_args, call_ret>>

scoreVars == <<transcript, rubric, model_loaded, similarity, word_count, row_idx,
               weighted_sum, total_weight, per_criterion, final_scores,
               overall_score>>

(***************************************************************************)
(* Bounds of the model.                                                    *)
(***************************************************************************)
MaxRows == 2
MaxWordCount == 4
MaxBound == 3
MaxTranscriptLen == 2
MaxKeywordStrLen == 4
MaxMinWords == 55

(***************************************************************************)
(* Exact rational arithmetic standing for Python float arithmetic.         *)
(***************************************************************************)
Abs(x) == IF x < 0 THEN -x ELSE x

RECURSIVE Gcd(_, _)
Gcd(a, b) == IF b = 0 THEN a ELSE Gcd(b, a % b)

Rat(n, d) ==
    LET g == Gcd(Abs(n), Abs(d))
        s == IF d < 0 THEN -1 ELSE 1
    IN  IF n = 0 THEN <<0, 1>> ELSE <<s * (n \div g), s * (d \div g)>>

Zero == Rat(0, 1)
One == Rat(1, 1)
Half == Rat(1, 2)
Hundred == Rat(100, 1)

RAdd(a, b) == Rat(a[1] * b[2] + b[1] * a[2], a[2] * b[2])
RSub(a, b) == Rat(a[1] * b[2] - b[1] * a[2], a[2] * b[2])
RMul(a, b) == Rat(a[1] * b[1], a[2] * b[2])
RDiv(a, b) == Rat(a[1] * b[2], a[2] * b[1])
RLt(a, b) == a[1] * b[2] < b[1] * a[2]
RLe(a, b) == a[1] * b[2] <= b[1] * a[2]
RMax(a, b) == IF RLt(a, b) THEN b ELSE a

\* floor of a rational (d > 0, and \div rounds toward minus infinity)
Floor(a) == a[1] \div a[2]

\* int(x): truncation toward zero
IntTrunc(a) == IF a[1] >= 0 THEN a[1] \div a[2] ELSE -((-a[1]) \div a[2])

RECURSIVE Pow10(_)
Pow10(k) == IF k = 0 THEN 1 ELSE 10 * Pow10(k - 1)

\* round(x, k): to k decimals, ties to the even neighbour
Round(a, k) ==
    LET x == RMul(a, Rat(Pow10(k), 1))
        fl == Floor(x)
        twice == RSub(RMul(x, Rat(2, 1)), Rat(2 * fl, 1))
        up == IF RLt(twice, One) THEN fl
              ELSE IF RLt(One, twice) THEN fl + 1
              ELSE IF fl % 2 = 0 THEN fl ELSE fl + 1
    IN  Rat(up, Pow10(k))

(***************************************************************************)
(* Strings as sequences of characters.                                     *)
(***************************************************************************)
Whitespace == {" ", "\n", "\t"}

\* the ASCII letters that str.lower() changes
LowerMap ==
    "A" :> "a" @@ "B" :> "b" @@ "C" :> "c" @@ "D" :> "d" @@ "E" :> "e" @@ "F" :> "f"
    @@ "G" :> "g" @@ "H" :> "h" @@ "I" :> "i" @@ "J" :> "j" @@ "K" :> "k" @@ "L" :> "l"
    @@ "M" :> "m" @@ "N" :> "n" @@ "O" :> "o" @@ "P" :> "p" @@ "Q" :> "q" @@ "R" :> "r"
    @@ "S" :> "s" @@ "T" :> "t" @@ "U" :> "u" @@ "V" :> "v" @@ "W" :> "w" @@ "X" :> "x"
    @@ "Y" :> "y" @@ "Z" :> "z"

LowerChar(c) == IF c \in DOMAIN LowerMap THEN LowerMap[c] ELSE c

\* str.lower()
Lower(s) == [k \in 1..Len(s) |-> LowerChar(s[k])]

RECURSIVE LStrip(_)
LStrip(s) == IF s # <<>> /\ Head(s) \in Whitespace THEN LStrip(Tail(s)) ELSE s

RECURSIVE RStrip(_)
RStrip(s) ==
    IF s # <<>> /\ s[Len(s)] \in Whitespace
    THEN RStrip(SubSeq(s, 1, Len(s) - 1))
    ELSE s

\* str.strip()
Strip(s) == RStrip(LStrip(s))

\* str.replace("\n", " ")
ReplaceNewline(s) == [k \in 1..Len(s) |-> IF s[k] = "\n" THEN " " ELSE s[k]]

\* re.sub(r"\s+", " ", text): every maximal whitespace run becomes one space
RECURSIVE CollapseWhitespace(_)
CollapseWhitespace(s) ==
    IF s = <<>> THEN <<>>
    ELSE IF Head(s) \in Whitespace
         THEN <<" ">> \o CollapseWhitespace(LStrip(s))
         ELSE <<Head(s)>> \o CollapseWhitespace(Tail(s))

\* str.split(sep) for a one-character separator: Len = 1 + number of separators
RECURSIVE SplitOn(_, _)
SplitOn(s, sep) ==
    IF \A k \in 1..Len(s) : s[k] # sep THEN <<s>>
    ELSE LET p == CHOOSE k \in 1..Len(s) :
                      s[k] = sep /\ \A j \in 1..(k - 1) : s[j] # sep
         IN  <<SubSeq(s, 1, p - 1)>> \o SplitOn(SubSeq(s, p + 1, Len(s)), sep)

\* str.split(): the maximal runs of non-whitespace characters
RECURSIVE SplitWhitespace(_)
SplitWhitespace(s) ==
    LET t == LStrip(s)
    IN  IF t = <<>> THEN <<>>
        ELSE LET n == IF \E k \in 1..Len(t) : t[k] \in Whitespace
                      THEN (CHOOSE k \in 1..Len(t) :
                                t[k] \in Whitespace
                                /\ \A j \in 1..(k - 1) : t[j] \notin Whitespace) - 1
                      ELSE Len(t)
             IN  <<SubSeq(t, 1, n)>> \o SplitWhitespace(SubSeq(t, n + 1, Len(t)))

\* the Python test `k in t` on strings
IsSubstring(k, t) ==
    \E p \in 0..(Len(t) - Len(k)) : SubSeq(t, p + 1, p + Len(k)) = k

\* all sequences over the set A of length at most n
RECURSIVE SeqsUpTo(_, _)
SeqsUpTo(A, n) ==
    IF n = 0 THEN {<<>>}
    ELSE LET shorter == SeqsUpTo(A, n - 1)
         IN  shorter \cup {Append(s, c) : s \in shorter, c \in A}

(***************************************************************************)
(* Rubric cells and Python's conversions of them.                          *)
(***************************************************************************)
NaN == [k |-> "nan"]
Inf == [k |-> "inf"]
Num(q) == [k |-> "num", q |-> q]
Str(s) == [k |-> "str", s |-> s]

\* pd.notna(x)
NotNa(c) == c.k # "nan"

\* np.isfinite(x) on a float
IsFinite(c) == c.k = "num"

DigitChars == <<"0", "1", "2", "3", "4", "5", "6", "7", "8", "9">>
IsDigit(c) == \E k \in 1..Len(DigitChars) : DigitChars[k] = c
DigitValue(c) == (CHOOSE k \in 1..Len(DigitChars) : DigitChars[k] = c) - 1

RECURSIVE NatStr(_)
NatStr(n) ==
    IF n < 10 THEN <<DigitChars[n + 1]>>
    ELSE NatStr(n \div 10) \o <<DigitChars[(n % 10) + 1]>>

\* str(n) of a Python int
IntStr(n) == IF n < 0 THEN <<"-">> \o NatStr(-n) ELSE NatStr(n)

RECURSIVE FracStr(_, _)
FracStr(n, d) ==
    IF n = 0 THEN <<>>
    ELSE <<DigitChars[((10 * n) \div d) + 1]>> \o FracStr((10 * n) % d, d)

\* str(x) of a finite Python float whose value is a short decimal: "2.0", "-0.5"
\* (numeric cells are read as floats; only a name taken from a numeric cell
\* shows this text)
FloatStr(q) ==
    LET a == Abs(q[1])
        frac == FracStr(a % q[2], q[2])
    IN  (IF q[1] < 0 THEN <<"-">> ELSE <<>>)
        \o NatStr(a \div q[2]) \o <<".">>
        \o (IF frac = <<>> THEN <<"0">> ELSE frac)

\* str(x) of a cell value; a missing cell is the float nan, whose str is "nan"
StrOf(c) ==
    CASE c.k = "nan" -> <<"n", "a", "n">>
      [] c.k = "inf" -> <<"i", "n", "f">>
      [] c.k = "num" -> FloatStr(c.q)
      [] c.k = "str" -> c.s

RECURSIVE DigitsValue(_)
DigitsValue(s) ==
    IF s = <<>> THEN 0
    ELSE 10 * DigitsValue(SubSeq(s, 1, Len(s) - 1)) + DigitValue(s[Len(s)])

AllDigits(s) == \A k \in 1..Len(s) : IsDigit(s[k])

\* float(s) of a str: surrounding whitespace is ignored, then an optional sign
\* and a decimal literal (digits, optionally "." and digits, at least one
\* digit); any other text raises ValueError.  Exponents and the words
\* "nan"/"inf" are not modelled.
ParseFloat(s) ==
    LET t == Strip(s)
        neg == t # <<>> /\ Head(t) = "-"
        u == IF t # <<>> /\ Head(t) \in {"-", "+"} THEN Tail(t) ELSE t
        parts == SplitOn(u, ".")
        ip == parts[1]
        fp == IF Len(parts) = 2 THEN parts[2] ELSE <<>>
        ok == /\ Len(parts) <= 2
              /\ AllDigits(ip) /\ AllDigits(fp)
              /\ Len(ip) + Len(fp) > 0
        mag == Rat(DigitsValue(ip) * Pow10(Len(fp)) + DigitsValue(fp), Pow10(Len(fp)))
    IN  IF ok
        THEN [ok |-> TRUE, val |-> Num(IF neg THEN RSub(Zero, mag) ELSE mag)]
        ELSE [ok |-> FALSE, val |-> NaN]

\* float(x) of a non-missing cell value: [ok, val], ok = FALSE for ValueError
FloatOf(c) ==
    IF c.k = "str" THEN ParseFloat(c.s) ELSE [ok |-> TRUE, val |-> c]

(***************************************************************************)
(* preprocess_text                                                         *)
(***************************************************************************)
PreprocessText(text) == CollapseWhitespace(ReplaceNewline(Strip(text)))

\* a word count that counts the separating spaces instead of the words
WordCountOfSpaces(text) == Cardinality({k \in 1..Len(text) : text[k] = " "})

\* words = transcript.split(); word_count = len(words)
WordCount(text) == Len(SplitWhitespace(text))

(***************************************************************************)
(* compute_keyword_score                                                   *)
(***************************************************************************)
RECURSIVE KeepNonBlankLowered(_)
KeepNonBlankLowered(parts) ==
    IF parts = <<>> THEN <<>>
    ELSE (IF Strip(Head(parts)) # <<>>
          THEN <<Lower(Strip(Head(parts)))>>
          ELSE <<>>) \o KeepNonBlankLowered(Tail(parts))

\* the list comprehension building `keywords`
ParseKeywords(keyword_str) == KeepNonBlankLowered(SplitOn(keyword_str, ","))

\* the loop over keywords filling `found` and `missing`
RECURSIVE KeywordLoop(_, _)
KeywordLoop(keywords, transcript_lower) ==
    IF keywords = <<>> THEN [found |-> <<>>, missing |-> <<>>]
    ELSE LET kw == Head(keywords)
             rest == KeywordLoop(Tail(keywords), transcript_lower)
         IN  IF kw # <<>> /\ IsSubstring(kw, transcript_lower)
             THEN [rest EXCEPT !.found = <<kw>> \o @]
             ELSE [rest EXCEPT !.missing = <<kw>> \o @]

Coverage(found, keywords) ==
    IF Len(keywords) = 0 THEN One ELSE Rat(Len(found), Len(keywords))

\* compute_keyword_score matching against the transcript as written
ComputeKeywordScoreCaseSensitive(text, keyword_str) ==
    LET keywords == ParseKeywords(StrOf(keyword_str))
        fm == KeywordLoop(keywords, text)
    IN  [score |-> Coverage(fm.found, keywords),
         found |-> fm.found,
         missing |-> fm.missing]

\* keyword_str is the value handed in (a cell value); str() is applied to it
ComputeKeywordScore(text, keyword_str) ==
    LET transcript_lower == Lower(text)
        keywords == ParseKeywords(StrOf(keyword_str))
        fm == KeywordLoop(keywords, transcript_lower)
    IN  [score |-> Coverage(fm.found, keywords),
         found |-> fm.found,
         missing |-> fm.missing]

(***************************************************************************)
(* compute_length_penalty                                                  *)
(***************************************************************************)
PenaltyFloor == Rat(4, 10)

\* the penalty without its floor
UnclampedPenalty(diff, limit) == RSub(One, RDiv(diff, RMax(limit, One)))

\* max(0.4, 1 - diff / max(limit, 1))
ClampedPenalty(diff, limit) ==
    RMax(PenaltyFloor, RSub(One, RDiv(diff, RMax(limit, One))))

TooShort(diff) ==
    <<"Too short by about ">> \o IntStr(IntTrunc(diff))
        \o <<" words. Try adding a bit more detail.">>

TooLong(diff) ==
    <<"Too long by about ">> \o IntStr(IntTrunc(diff))
        \o <<" words. Try being a bit more concise.">>

\* compute_length_penalty testing the maximum before the minimum
ComputeLengthPenaltyMaxFirst(wc, min_words, max_words) ==
    LET w == Rat(wc, 1)
    IN  IF ~(IsFinite(min_words) \/ IsFinite(max_words))
        THEN [penalty |-> One, suggestion |-> <<>>]
        ELSE IF IsFinite(max_words) /\ RLt(max_words.q, w)
        THEN [penalty |-> ClampedPenalty(RSub(w, max_words.q), max_words.q),
              suggestion |-> TooLong(RSub(w, max_words.q))]
        ELSE IF IsFinite(min_words) /\ RLt(w, min_words.q)
        THEN [penalty |-> ClampedPenalty(RSub(min_words.q, w), min_words.q),
              suggestion |-> TooShort(RSub(min_words.q, w))]
        ELSE [penalty |-> One, suggestion |-> <<>>]

\* min_words and max_words are floats: NaN, Inf or Num(q); "" is <<>>
ComputeLengthPenalty(wc, min_words, max_words) ==
    LET w == Rat(wc, 1)
    IN  IF ~(IsFinite(min_words) \/ IsFinite(max_words))
        THEN [penalty |-> One, suggestion |-> <<>>]
        ELSE IF IsFinite(min_words) /\ RLt(w, min_words.q)
        THEN [penalty |-> ClampedPenalty(RSub(min_words.q, w), min_words.q),
              suggestion |-> TooShort(RSub(min_words.q, w))]
        ELSE IF IsFinite(max_words) /\ RLt(max_words.q, w)
        THEN [penalty |-> ClampedPenalty(RSub(w, max_words.q), max_words.q),
              suggestion |-> TooLong(RSub(w, max_words.q))]
        ELSE [penalty |-> One, suggestion |-> <<>>]

(***************************************************************************)
(* compute_semantic_score.  The embedding model is outside the program:    *)
(* model_loaded says whether loading it succeeded, and similarity is what  *)
(* (cosine + 1) / 2 comes to for the call's transcript and each            *)
(* description text, a value of [0, 1].                                    *)
(***************************************************************************)
SemanticValues == {Zero, One}

ComputeSemanticScore(text, rubric_description) ==
    IF ~model_loaded THEN Half ELSE similarity[StrOf(rubric_description)]

(***************************************************************************)
(* Rows: [cols |-> sequence of column names, cells |-> sequence of cells]  *)
(***************************************************************************)
HasCol(row, col) == \E k \in 1..Len(row.cols) : row.cols[k] = col

\* row[col]
CellOf(row, col) ==
    row.cells[CHOOSE k \in 1..Len(row.cols) : row.cols[k] = col]

NameColumns == <<"Criterion", "Criteria", "Parameter", "Aspect">>
DescriptionColumns == <<"Description", "Criteria Description", "Detail", "Details">>
KeywordColumns == <<"Keywords", "Keyword", "Key words", "KeyWords">>
WeightColumns == <<"Weight", "Weights", "MaxScore">>
MinWordsColumns == <<"MinWords", "Min Words">>
MaxWordsColumns == <<"MaxWords", "Max Words">>

UnnamedCriterion ==
    <<"U", "n", "n", "a", "m", "e", "d", " ",
      "C", "r", "i", "t", "e", "r", "i", "o", "n">>

\* the second loop of _get_criterion_name: first non-null value of the row
RECURSIVE FirstNonNullName(_)
FirstNonNullName(cells) ==
    IF cells = <<>> THEN UnnamedCriterion
    ELSE IF NotNa(Head(cells)) THEN Strip(StrOf(Head(cells)))
    ELSE FirstNonNullName(Tail(cells))

RECURSIVE NameFromColumns(_, _)
NameFromColumns(row, candidates) ==
    IF candidates = <<>> THEN FirstNonNullName(row.cells)
    ELSE IF HasCol(row, Head(candidates)) /\ NotNa(CellOf(row, Head(candidates)))
    THEN Strip(StrOf(CellOf(row, Head(candidates))))
    ELSE NameFromColumns(row, Tail(candidates))

GetCriterionName(row) == NameFromColumns(row, NameColumns)

RECURSIVE GetFirstExisting(_, _)
GetFirstExisting(row, candidates) ==
    IF candidates = <<>> THEN NaN
    ELSE IF HasCol(row, Head(candidates)) THEN CellOf(row, Head(candidates))
    ELSE GetFirstExisting(row, Tail(candidates))

(***************************************************************************)
(* score_transcript, one loop iteration                                    *)
(***************************************************************************)
\* weight_raw -> weight, with the try/except around float()
ResolveWeight(row) ==
    LET weight_raw == GetFirstExisting(row, WeightColumns)
        f == FloatOf(weight_raw)
    IN  IF NotNa(weight_raw) /\ f.ok THEN f.val.q ELSE One

\* float(x) if pd.notna(x) else np.nan, outside any try: [ok, val]
ResolveBound(row, candidates) ==
    LET raw == GetFirstExisting(row, candidates)
    IN  IF NotNa(raw) THEN FloatOf(raw) ELSE [ok |-> TRUE, val |-> NaN]

\* base_score = 0.5 * kw + 0.5 * semantic; final_score_0_1 = base * penalty
FinalScore(kw_score, semantic, penalty) ==
    RMul(RAdd(RMul(Half, kw_score), RMul(Half, semantic)), penalty)

\* weighted_sum += final_score_0_1 * weight
AddWeighted(sum, final, weight) == RAdd(sum, RMul(final, weight))

\* a total that counts the rows instead of adding their weights
AddWeightCountsRow(total, weight) == RAdd(total, One)

\* total_weight += weight
AddWeight(total, weight) == RAdd(total, weight)

\* the dict appended to per_criterion_results
CriterionResult(row, text, wc) ==
    LET semantic == ComputeSemanticScore(text, GetFirstExisting(row, DescriptionColumns))
        kw_result == ComputeKeywordScore(text, GetFirstExisting(row, KeywordColumns))
        length_info == ComputeLengthPenalty(wc,
                           ResolveBound(row, MinWordsColumns).val,
                           ResolveBound(row, MaxWordsColumns).val)
    IN  [criterion |-> GetCriterionName(row),
         weight |-> ResolveWeight(row),
         keyword_score |-> Round(kw_result.score, 3),
         semantic_score |-> Round(semantic, 3),
         length_penalty |-> Round(length_info.penalty, 3),
         final_score_0_1 |->
             Round(FinalScore(kw_result.score, semantic, length_info.penalty), 3),
         keywords_found |-> kw_result.found,
         keywords_missing |-> kw_result.missing,
         length_feedback |-> length_info.suggestion]

\* the unrounded final_score_0_1 of the iteration
RowFinal(row, text, wc) ==
    FinalScore(ComputeKeywordScore(text, GetFirstExisting(row, KeywordColumns)).score,
               ComputeSemanticScore(text, GetFirstExisting(row, DescriptionColumns)),
               ComputeLengthPenalty(wc,
                   ResolveBound(row, MinWordsColumns).val,
                   ResolveBound(row, MaxWordsColumns).val).penalty)

\* overall_0_1 and its scaling and rounding
OverallScore(sum, total) ==
    Round(RMul(IF total = Zero THEN Zero ELSE RDiv(sum, total), Hundred), 2)

CurrentRow == [cols |-> rubric.cols, cells |-> rubric.rows[row_idx]]

BoundsParse(row) ==
    ResolveBound(row, MinWordsColumns).ok /\ ResolveBound(row, MaxWordsColumns).ok

(***************************************************************************)
(* score_transcript as a state machine                                     *)
(*   pc: "start" -> "loop" -> "done", or "raised" when float() raises      *)
(***************************************************************************)
Preprocess ==
    /\ pc = "start"
    /\ transcript' = PreprocessText(transcript)
    /\ word_count' = WordCount(PreprocessText(transcript))
    /\ per_criterion' = <<>>
    /\ final_scores' = <<>>
    /\ weighted_sum' = Zero
    /\ total_weight' = Zero
    /\ row_idx' = 1
    /\ pc' = "loop"
    /\ UNCHANGED <<rubric, model_loaded, similarity, overall_score, call_args, call_ret>>

ScoreRow ==
    /\ pc = "loop"
    /\ row_idx <= Len(rubric.rows)
    /\ BoundsParse(CurrentRow)
    /\ LET res == CriterionResult(CurrentRow, transcript, word_count)
           final == RowFinal(CurrentRow, transcript, word_count)
       IN  /\ weighted_sum' = AddWeighted(weighted_sum, final, res.weight)
           /\ total_weight' = AddWeight(total_weight, res.weight)
           /\ per_criterion' = Append(per_criterion, res)
           /\ final_scores' = Append(final_scores, final)
    /\ row_idx' = row_idx + 1
    /\ UNCHANGED <<pc, transcript, rubric, model_loaded, similarity, word_count,
                   overall_score, call_args, call_ret>>

\* float(min_words) or float(max_words) raises ValueError, which nothing catches
ScoreRowRaises ==
    /\ pc = "loop"
    /\ row_idx <= Len(rubric.rows)
    /\ ~BoundsParse(CurrentRow)
    /\ pc' = "raised"
    /\ UNCHANGED <<scoreVars, call_args, call_ret>>

Return ==
    /\ pc = "loop"
    /\ row_idx > Len(rubric.rows)
    /\ overall_score' = OverallScore(weighted_sum, total_weight)
    /\ pc' = "done"
    /\ UNCHANGED <<transcript, rubric, model_loaded, similarity, word_count,
                   row_idx, weighted_sum, total_weight, per_criterion,
                   final_scores, call_args, call_ret>>

(***************************************************************************)
(* Inputs of score_transcript                                              *)
(***************************************************************************)
Transcripts ==
    { <<" ", "a", " ", " ", "b", "\n", "c", " ">>,
      <<"B", "a", "n", "a", "n", "a">>,
      <<"x", "\t", "y">> }

\* column layouts of the rubric table: column name and the cells it may hold
Layouts ==
    { << [col |-> "Description", dom |-> {NaN, Str(<<"d">>)}],
         [col |-> "Weight",
          dom |-> {NaN, Num(Zero), Num(Rat(2, 1)), Num(Rat(-2, 1))}] >>,
      << [col |-> "Criterion", dom |-> {Str(<<"Q">>)}],
         [col |-> "Keywords", dom |-> {NaN, Str(<<"a", ",", " ", "C">>)}],
         [col |-> "Weight", dom |-> {NaN, Num(Rat(2, 1)), Num(Rat(-2, 1))}] >>,
      << [col |-> "Weight", dom |-> {NaN, Num(Rat(-2, 1)), Str(<<"x">>)}],
         [col |-> "Weights", dom |-> {NaN, Num(Rat(3, 1))}] >>,
      << [col |-> "MinWords", dom |-> {NaN, Num(Rat(5, 1)), Str(<<"x">>)}],
         [col |-> "Max Words", dom |-> {NaN, Num(Rat(1, 1))}] >> }

AllCells == UNION {UNION {layout[k].dom : k \in 1..Len(layout)} : layout \in Layouts}

\* the rows of a layout; load_rubric drops the rows whose cells are all missing
RowsOf(layout) ==
    {cells \in [1..Len(layout) -> AllCells] :
        /\ \A k \in 1..Len(layout) : cells[k] \in layout[k].dom
        /\ \E k \in 1..Len(layout) : NotNa(cells[k])}

\* the description texts compute_semantic_score can be handed
DescriptionTexts == {StrOf(c) : c \in {NaN, Str(<<"d">>)}}

\* one similarity per description text; without a model it is never read
Similarities(loaded) ==
    IF loaded THEN [DescriptionTexts -> SemanticValues]
    ELSE {[d \in DescriptionTexts |-> Half]}

Rubrics ==
    UNION { { [cols |-> [k \in 1..Len(layout) |-> layout[k].col], rows |-> rows] :
                rows \in SeqsUpTo(RowsOf(layout), MaxRows) } : layout \in Layouts }

NoCall == <<>>

Init ==
    /\ pc = "start"
    /\ transcript \in Transcripts
    /\ rubric \in Rubrics
    /\ model_loaded \in BOOLEAN
    /\ similarity \in Similarities(model_loaded)
    /\ word_count = 0
    /\ row_idx = 0
    /\ weighted_sum = Zero
    /\ total_weight = Zero
    /\ per_criterion = <<>>
    /\ final_scores = <<>>
    /\ overall_score = Zero
    /\ call_args = NoCall
    /\ call_ret = NoCall

Next == Preprocess \/ ScoreRow \/ ScoreRowRaises \/ Return

Spec == Init /\ [][Next]_vars

(***************************************************************************)
(* Claims about score_transcript, checked under Spec                       *)
(***************************************************************************)
RowAt(k) == [cols |-> rubric.cols, cells |-> rubric.rows[k]]

\* C1: the overall_score that score_transcript returns lies in [0, 100],
\* whatever numbers the weight cells hold (zero and negative included).
C1_OverallInRange ==
    pc = "done" => RLe(Zero, overall_score) /\ RLe(overall_score, Hundred)

\* the resolution the specification describes: the first candidate column that
\* is present and holds a non-missing value
RECURSIVE FirstNonMissing(_, _)
FirstNonMissing(row, candidates) ==
    IF candidates = <<>> THEN NaN
    ELSE IF HasCol(row, Head(candidates)) /\ NotNa(CellOf(row, Head(candidates)))
    THEN CellOf(row, Head(candidates))
    ELSE FirstNonMissing(row, Tail(candidates))

WeightOfCell(c) == IF NotNa(c) /\ FloatOf(c).ok THEN FloatOf(c).val.q ELSE One

\* C2: every logical field of a scored row is taken from the first synonym
\* column that is present and non-missing; a present but missing
\* higher-priority column does not hide a lower-priority one (stated on the
\* weight, the keyword lists and the length penalty of each result).
C2_FirstNonMissingSynonym ==
    \A k \in 1..Len(per_criterion) :
        LET row == RowAt(k)
            kw == ComputeKeywordScore(transcript, FirstNonMissing(row, KeywordColumns))
            mn == FirstNonMissing(row, MinWordsColumns)
            mx == FirstNonMissing(row, MaxWordsColumns)
        IN  /\ per_criterion[k].weight = WeightOfCell(FirstNonMissing(row, WeightColumns))
            /\ per_criterion[k].keywords_found = kw.found
            /\ per_criterion[k].keywords_missing = kw.missing
            /\ per_criterion[k].length_penalty =
                   Round(ComputeLengthPenalty(word_count, FloatOf(mn).val,
                                              FloatOf(mx).val).penalty, 3)

KeywordsAbsentOrMissing(row) ==
    \A c \in 1..Len(KeywordColumns) :
        HasCol(row, KeywordColumns[c]) => ~NotNa(CellOf(row, KeywordColumns[c]))

\* C3: a row whose keywords field is absent or missing is scored with an empty
\* keyword list: keyword_score 1.0, keywords_found and keywords_missing empty.
C3_MissingKeywordsVacuous ==
    \A k \in 1..Len(per_criterion) :
        KeywordsAbsentOrMissing(RowAt(k)) =>
            /\ per_criterion[k].keyword_score = One
            /\ per_criterion[k].keywords_found = <<>>
            /\ per_criterion[k].keywords_missing = <<>>

\* C4: score_transcript never ends in an error because of a present but
\* unparseable weight or word-bound cell; it returns a result for every row.
C4_NoErrorOnUnparseable ==
    /\ pc # "raised"
    /\ pc = "done" => Len(per_criterion) = Len(rubric.rows)

RECURSIVE SumWeighted(_)
SumWeighted(n) ==
    IF n = 0 THEN Zero
    ELSE RAdd(SumWeighted(n - 1), RMul(final_scores[n], per_criterion[n].weight))

RECURSIVE SumWeights(_)
SumWeights(n) ==
    IF n = 0 THEN Zero ELSE RAdd(SumWeights(n - 1), per_criterion[n].weight)

\* C8: on return there is one per_criterion entry per rubric row, in row
\* order; overall_score is (sum of unrounded final_score_i * weight_i) / (sum
\* of weight_i) times 100 rounded to 2 decimals, and 0 when the weights sum to
\* 0; for an empty rubric per_criterion is empty and overall_score is 0.
C8_WeightedMean ==
    pc = "done" =>
        LET n == Len(rubric.rows)
        IN  /\ Len(per_criterion) = n
            /\ Len(final_scores) = n
            /\ \A k \in 1..n :
                  /\ per_criterion[k].weight = ResolveWeight(RowAt(k))
                  /\ per_criterion[k].criterion = GetCriterionName(RowAt(k))
                  /\ per_criterion[k].final_score_0_1 = Round(final_scores[k], 3)
            /\ overall_score =
                  IF SumWeights(n) = Zero THEN Zero
                  ELSE Round(RMul(RDiv(SumWeighted(n), SumWeights(n)), Hundred), 2)
            /\ n = 0 => per_criterion = <<>> /\ overall_score = Zero

\* a returned call over two rows of different weight and different final score
C8_Witness ==
    /\ pc = "done"
    /\ Len(per_criterion) = 2
    /\ per_criterion[1].weight # per_criterion[2].weight
    /\ final_scores[1] # final_scores[2]
    /\ total_weight # Zero
    /\ overall_score # Zero

(***************************************************************************)
(* Direct calls of the helper functions: pc "call" -> "returned", the      *)
(* arguments in call_args and the returned value in call_ret.              *)
(***************************************************************************)
IdleScore ==
    /\ transcript = <<>>
    /\ rubric = [cols |-> <<>>, rows |-> <<>>]
    /\ model_loaded = FALSE
    /\ similarity = [d \in DescriptionTexts |-> Half]
    /\ word_count = 0
    /\ row_idx = 0
    /\ weighted_sum = Zero
    /\ total_weight = Zero
    /\ per_criterion = <<>>
    /\ final_scores = <<>>
    /\ overall_score = Zero

\* compute_length_penalty(word_count, min_words, max_words)
BoundValues == {NaN, Inf} \cup {Num(Rat(n, 2)) : n \in (-2)..(2 * MaxBound)}

InitLength ==
    /\ pc = "call"
    /\ call_args \in [word_count : 0..MaxWordCount,
                      min_words : BoundValues,
                      max_words : BoundValues]
    /\ call_ret = NoCall
    /\ IdleScore

CallComputeLengthPenalty ==
    /\ pc = "call"
    /\ call_ret' = ComputeLengthPenalty(call_args.word_count,
                                        call_args.min_words, call_args.max_words)
    /\ pc' = "returned"
    /\ UNCHANGED <<scoreVars, call_args>>

SpecLength == InitLength /\ [][CallComputeLengthPenalty]_vars

\* compute_keyword_score(transcript, keyword_str)
TranscriptAlphabet == {"A", "b"}
KeywordAlphabet == {"a", "B", ",", " "}

InitKeyword ==
    /\ pc = "call"
    /\ call_args \in [transcript : SeqsUpTo(TranscriptAlphabet, MaxTranscriptLen),
                      keyword_str : SeqsUpTo(KeywordAlphabet, MaxKeywordStrLen)]
    /\ call_ret = NoCall
    /\ IdleScore

CallComputeKeywordScore ==
    /\ pc = "call"
    /\ call_ret' = ComputeKeywordScore(call_args.transcript, Str(call_args.keyword_str))
    /\ pc' = "returned"
    /\ UNCHANGED <<scoreVars, call_args>>

SpecKeyword == InitKeyword /\ [][CallComputeKeywordScore]_vars

\* _get_criterion_name(row)
NameLayouts ==
    { <<"Criterion", "Weight">>, <<"Criteria", "Criterion">>, <<"Topic", "Aspect">> }

NameCells ==
    {NaN, Num(Rat(2, 1)), Str(<<" ">>), Str(<<" ", "a", " ">>), Str(<<"Q">>)}

InitName ==
    /\ pc = "call"
    /\ call_args \in {[cols |-> cols, cells |-> cells] :
                         cols \in NameLayouts, cells \in [1..2 -> NameCells]}
    /\ call_ret = NoCall
    /\ IdleScore

CallGetCriterionName ==
    /\ pc = "call"
    /\ call_ret' = GetCriterionName(call_args)
    /\ pc' = "returned"
    /\ UNCHANGED <<scoreVars, call_args>>

SpecName == InitName /\ [][CallGetCriterionName]_vars

(***************************************************************************)
(* The scenario of the technical-skills row: score_transcript on one       *)
(* sentence (and the same sentence with other whitespace) against a row    *)
(* with a MinWords cell.                                                   *)
(***************************************************************************)
ScenarioSentence ==
    <<"I", " ", "a", "m", " ", "a", " ", "s", "o", "f", "t", "w", "a",
      "r", "e", " ", "e", "n", "g", "i", "n", "e", "e", "r", " ", "w",
      "i", "t", "h", " ", "e", "x", "p", "e", "r", "i", "e", "n", "c",
      "e", " ", "i", "n", " ", "p", "y", "t", "h", "o", "n", " ", "a",
      "n", "d", " ", "m", "a", "c", "h", "i", "n", "e", " ", "l", "e",
      "a", "r", "n", "i", "n", "g">>

ScenarioSpaced ==
    <<" ", " ", "I", " ", "a", "m", " ", "a", " ", "s", "o", "f", "t",
      "w", "a", "r", "e", " ", "e", "n", "g", "i", "n", "e", "e", "r",
      " ", "w", "i", "t", "h", " ", "e", "x", "p", "e", "r", "i", "e",
      "n", "c", "e", "\n", "i", "n", " ", "p", "y", "t", "h", "o", "n",
      " ", "a", "n", "d", " ", " ", " ", " ", "m", "a", "c", "h", "i",
      "n", "e", " ", "l", "e", "a", "r", "n", "i", "n", "g", " ", "\n">>

ScenarioKeywords ==
    <<"p", "y", "t", "h", "o", "n", ",", " ", "j", "a", "v", "a", ",",
      " ", "m", "a", "c", "h", "i", "n", "e", " ", "l", "e", "a", "r",
      "n", "i", "n", "g">>

ScenarioCriterion ==
    <<"T", "e", "c", "h", "n", "i", "c", "a", "l", " ", "S", "k", "i",
      "l", "l", "s">>

ScenarioRubric(m) ==
    [cols |-> <<"Criterion", "Keywords", "Weight", "MinWords">>,
     rows |-> << <<Str(ScenarioCriterion), Str(ScenarioKeywords),
                   Num(Rat(2, 1)), Num(Rat(m, 1))>> >>]

InitScenario ==
    /\ pc = "start"
    /\ transcript \in {ScenarioSentence, ScenarioSpaced}
    /\ rubric \in {ScenarioRubric(m) : m \in 1..MaxMinWords}
    /\ model_loaded \in BOOLEAN
    /\ similarity \in Similarities(model_loaded)
    /\ word_count = 0
    /\ row_idx = 0
    /\ weighted_sum = Zero
    /\ total_weight = Zero
    /\ per_criterion = <<>>
    /\ final_scores = <<>>
    /\ overall_score = Zero
    /\ call_args = NoCall
    /\ call_ret = NoCall

NextScenario == Preprocess \/ ScoreRow \/ Return

SpecScenario == InitScenario /\ [][NextScenario]_vars

(***************************************************************************)
(* Claims about the scenario, checked under SpecScenario                   *)
(***************************************************************************)
ScenarioAtFifty ==
    /\ pc = "done"
    /\ transcript = ScenarioSentence
    /\ rubric = ScenarioRubric(50)

\* C5 as stated: the scenario transcript against MinWords 50 counts 11 words,
\* so the deficit is 39, length_penalty is 0.4 and the feedback reports 39.
C5_ScenarioAsStated ==
    ScenarioAtFifty =>
        /\ word_count = 11
        /\ per_criterion[1].length_penalty = Rat(4, 10)
        /\ per_criterion[1].length_feedback # <<>>
        /\ SubSeq(per_criterion[1].length_feedback, 2, 3) = <<"3", "9">>

\* C5 amended: the scenario transcript against MinWords 50 counts 12 words,
\* so the deficit is 38: length_penalty is max(0.4, 1 - 38/50) = 0.4 and the
\* non-empty length_feedback reports a deficit of 38 words.
C5_ScenarioTwelveWords ==
    ScenarioAtFifty =>
        /\ word_count = 12
        /\ per_criterion[1].length_penalty = Rat(4, 10)
        /\ per_criterion[1].length_feedback =
               <<"Too short by about ", "3", "8",
                 " words. Try adding a bit more detail.">>

\* the scenario call has returned, with its one row scored
C5_Witness ==
    /\ ScenarioAtFifty
    /\ Len(per_criterion) = 1
    /\ per_criterion[1].length_feedback # <<>>

(***************************************************************************)
(* Claim about _get_criterion_name, checked under SpecName                 *)
(***************************************************************************)
\* C6: the criterion name _get_criterion_name produces is a non-empty string
\* for every row, rows with a blank name cell and all-missing rows included.
C6_NameNonEmpty == pc = "returned" => call_ret # <<>>

(***************************************************************************)
(* Claims about compute_length_penalty, checked under SpecLength           *)
(***************************************************************************)
UnderMinimum ==
    /\ IsFinite(call_args.min_words)
    /\ RLt(Rat(call_args.word_count, 1), call_args.min_words.q)

OverMaximum ==
    /\ IsFinite(call_args.max_words)
    /\ RLt(call_args.max_words.q, Rat(call_args.word_count, 1))

\* C7: for every word_count >= 0 and every pair of bounds (unbounded or any
\* finite number; zero, negative, fractional and min > max included) the
\* penalty lies in [0.4, 1.0], and it is exactly 1.0 when both bounds are
\* unbounded or word_count lies within the defined bounds.
C7_PenaltyRange ==
    pc = "returned" =>
        /\ RLe(Rat(4, 10), call_ret.penalty)
        /\ RLe(call_ret.penalty, One)
        /\ (~UnderMinimum /\ ~OverMaximum) => call_ret.penalty = One
        /\ (~IsFinite(call_args.min_words) /\ ~IsFinite(call_args.max_words))
               => call_ret.penalty = One

\* a call where the floor is what decides the penalty: the maximum is negative
C7_Witness ==
    /\ pc = "returned"
    /\ IsFinite(call_args.max_words)
    /\ RLt(call_args.max_words.q, Zero)
    /\ ~UnderMinimum
    /\ call_ret.penalty = Rat(4, 10)

\* C10: at most one penalty branch applies per call; when word_count is below
\* a finite min_words the under-minimum branch wins, also when it is above a
\* finite max_words too: the penalty is max(0.4, 1 - (min - wc) / max(min, 1))
\* and the feedback is the too-short message; the feedback is non-empty
\* exactly when one of the branches applied.
C10_MinimumFirst ==
    pc = "returned" =>
        LET w == Rat(call_args.word_count, 1)
            fb == call_ret.suggestion
        IN  /\ UnderMinimum =>
                  LET mn == call_args.min_words.q
                      raw == RSub(One, RDiv(RSub(mn, w), RMax(mn, One)))
                  IN  /\ call_ret.penalty = RMax(Rat(4, 10), raw)
                      /\ fb # <<>> /\ Head(fb) = "Too short by about "
            /\ (~UnderMinimum /\ OverMaximum) =>
                  LET mx == call_args.max_words.q
                      raw == RSub(One, RDiv(RSub(w, mx), RMax(mx, One)))
                  IN  /\ call_ret.penalty = RMax(Rat(4, 10), raw)
                      /\ fb # <<>> /\ Head(fb) = "Too long by about "
            /\ (fb # <<>>) <=> (UnderMinimum \/ OverMaximum)

\* a call with min_words > max_words and word_count strictly between them
C10_Witness ==
    /\ pc = "returned"
    /\ UnderMinimum
    /\ OverMaximum
    /\ call_ret.suggestion # <<>>

(***************************************************************************)
(* Claim about compute_keyword_score, checked under SpecKeyword            *)
(***************************************************************************)
\* C9: found and missing partition the parsed keyword list (order and
\* duplicates kept), a keyword is in found exactly when its lower-cased form
\* is a substring of the lower-cased transcript, and score is
\* |found| / |keywords| in [0, 1], or 1.0 for an empty keyword list.
C9_KeywordPartition ==
    pc = "returned" =>
        LET tl == Lower(call_args.transcript)
            kws == ParseKeywords(call_args.keyword_str)
            InTranscript(k) == IsSubstring(Lower(k), tl)
            NotInTranscript(k) == ~IsSubstring(Lower(k), tl)
        IN  /\ \A k \in 1..Len(kws) :
                  kws[k] # <<>> /\ Strip(kws[k]) = kws[k] /\ Lower(kws[k]) = kws[k]
            /\ call_ret.found = SelectSeq(kws, InTranscript)
            /\ call_ret.missing = SelectSeq(kws, NotInTranscript)
            /\ Len(call_ret.found) + Len(call_ret.missing) = Len(kws)
            /\ call_ret.score =
                  IF kws = <<>> THEN One ELSE Rat(Len(call_ret.found), Len(kws))
            /\ RLe(Zero, call_ret.score) /\ RLe(call_ret.score, One)

\* a call that finds one keyword through case folding and misses another
C9_Witness ==
    /\ pc = "returned"
    /\ call_ret.found # <<>>
    /\ call_ret.missing # <<>>
    /\ ~IsSubstring(call_ret.found[1], call_args.transcript)

====
